---- MODULE Spec2Model ----
(***************************************************************************)
(* WATER: the three tag metrics (ITAA, HAM, LIM), the MetricsCalculator    *)
(* aggregation loop that writes results.csv, and the multi-process run     *)
(* started by startup.py (HTMLScraper workers followed by the aggregator). *)
(*                                                                         *)
(* Text is a sequence of one-character strings.  A fragment (one stored    *)
(* markup string) is represented by what BeautifulSoup(tag, "html.parser") *)
(* finds in it: the element's tag name, each attribute as an option        *)
(* (<<>> absent, <<v>> present with value v) and the visible text.         *)
(***************************************************************************)
EXTENDS Integers, Sequences, FiniteSets, TLC

VARIABLES pc, directory_path, row_data, listing, idx, data, lookup, runs,
          json_files, results_csv,
          main_pc, urls, shard, pos, FAILURES, failures_txt, out_dir

vars == <<pc, directory_path, row_data, listing, idx, data, lookup, runs,
          json_files, results_csv,
          main_pc, urls, shard, pos, FAILURES, failures_txt, out_dir>>

mc_vars == <<pc, directory_path, row_data, listing, idx, data, lookup, runs>>
fs_vars == <<json_files, results_csv>>
run_vars == <<main_pc, urls, shard, pos, FAILURES, failures_txt, out_dir>>

----------------------------------------------------------------------------
(* Bounds *)

\* longest tag list of a fragment record
MaxTags == 2
\* most fragment records in the directory handed to MetricsCalculator
MaxFiles == 2
\* most lines of the target URL list
MaxUrls == 3

(* Program constants *)
NUM_PROCESSES == 3

Procs == 1..NUM_PROCESSES
\* directory 0 is PATH_TO_OUTPUT_DIRECTORY when it is none of the workers'
\* directories temp_for_measurements/k, k in Procs
Dirs == 0..NUM_PROCESSES

----------------------------------------------------------------------------
(* Text *)

UpperCase == <<"A","B","C","D","E","F","G","H","I","J","K","L","M",
               "N","O","P","Q","R","S","T","U","V","W","X","Y","Z">>
LowerCase == <<"a","b","c","d","e","f","g","h","i","j","k","l","m",
               "n","o","p","q","r","s","t","u","v","w","x","y","z">>

\* str.lower() on one character
LowerChar(c) ==
    IF \E i \in 1..Len(UpperCase) : UpperCase[i] = c
    THEN LowerCase[CHOOSE i \in 1..Len(UpperCase) : UpperCase[i] = c]
    ELSE c

\* str.lower()
lower(s) == [i \in 1..Len(s) |-> LowerChar(s[i])]

\* Python's  s in t  on strings
In(s, t) ==
    \E i \in 0..(Len(t) - Len(s)) : SubSeq(t, i + 1, i + Len(s)) = s

\* str.split(" "): cut at every single space, empty tokens kept
RECURSIVE SplitFrom(_, _, _)
SplitFrom(s, i, cur) ==
    IF i > Len(s) THEN <<cur>>
    ELSE IF s[i] = " " THEN <<cur>> \o SplitFrom(s, i + 1, <<>>)
    ELSE SplitFrom(s, i + 1, Append(cur, s[i]))

split(s) == SplitFrom(s, 1, <<>>)

----------------------------------------------------------------------------
(* Fragments as html.parser sees them *)

NoAttr == <<>>
Some(v) == <<v>>

Elem(tag, alt, href, for, id, hidden, text) ==
    [tag |-> tag, alt |-> alt, href |-> href, for |-> for, id |-> id,
     hidden |-> hidden, text |-> text]

\* soup(name): the elements of that tag name in the parsed fragment
soup(frag, name) == IF frag.tag = name THEN <<frag>> ELSE <<>>

\* tag[attr] raises KeyError when the attribute is absent
HasAttr(el, attr) == el[attr] # NoAttr
AttrOf(el, attr) == el[attr][1]

----------------------------------------------------------------------------
(* Row cells: csv.writer writes each with str(); a float is kept as the    *)
(* fraction in lowest terms, so equal floats are equal cells               *)

RECURSIVE GCD(_, _)
GCD(a, b) == IF b = 0 THEN a ELSE GCD(b, a % b)

Str(s) == [t |-> "str", s |-> s, n |-> 0, d |-> 1]
\* count / total in Python (total > 0)
Float(n, d) == [t |-> "float", s |-> "", n |-> n \div GCD(n, d), d |-> d \div GCD(n, d)]
NoData == Str("No Data")

\* the outcome of a call on the row buffer: the row afterwards, and the
\* exception that escaped the call ("none" when it returned)
Returned(row) == [row |-> row, exc |-> "none"]
Raised(row, exc) == [row |-> row, exc |-> exc]

----------------------------------------------------------------------------
(* MetricsCalculator._calculate_alt_metric (ITAA) *)

txt_image == <<"i","m","a","g","e">>
txt_graphic_of == <<"g","r","a","p","h","i","c"," ","o","f">>
txt_image_of == <<"i","m","a","g","e"," ","o","f">>
txt_picture_of == <<"p","i","c","t","u","r","e"," ","o","f">>
txt_this_is_an_image_of == <<"t","h","i","s"," ","i","s"," ","a","n"," ","i","m","a","g","e"," ","o","f">>

\* the check with "image" compared without lower()
alt_is_meaningful_case_sensitive(alt_text) ==
    /\ alt_text # txt_image
    /\ alt_text # <<>>
    /\ ~In(txt_graphic_of, lower(alt_text))
    /\ ~In(txt_image_of, lower(alt_text))
    /\ ~In(txt_picture_of, lower(alt_text))
    /\ ~In(txt_this_is_an_image_of, lower(alt_text))

\* "Lazy check to see if the alt tag is meaningful": the condition of the if
alt_is_meaningful(alt_text) ==
    /\ lower(alt_text) # txt_image
    /\ alt_text # <<>>
    /\ ~In(txt_graphic_of, lower(alt_text))
    /\ ~In(txt_image_of, lower(alt_text))
    /\ ~In(txt_picture_of, lower(alt_text))
    /\ ~In(txt_this_is_an_image_of, lower(alt_text))

\* the for loop over img_tags from position i with count_alt = count:
\* IndexError (no <img> in the fragment) escapes, KeyError (no alt) is passed
RECURSIVE alt_loop(_, _, _)
alt_loop(img_tags, i, count) ==
    IF i > Len(img_tags) THEN [exc |-> "none", count |-> count]
    ELSE IF soup(img_tags[i], "img") = <<>>
         THEN [exc |-> "IndexError", count |-> count]
    ELSE IF ~HasAttr(soup(img_tags[i], "img")[1], "alt")
         THEN alt_loop(img_tags, i + 1, count)
    ELSE IF alt_is_meaningful(AttrOf(soup(img_tags[i], "img")[1], "alt"))
         THEN alt_loop(img_tags, i + 1, count + 1)
    ELSE alt_loop(img_tags, i + 1, count)

calculate_alt_metric(row, img_tags) ==
    IF Len(img_tags) = 0 THEN Returned(Append(row, NoData))
    ELSE LET r == alt_loop(img_tags, 1, 0)
         IN  IF r.exc # "none" THEN Raised(row, r.exc)
             ELSE Returned(Append(row, Float(r.count, Len(img_tags))))

----------------------------------------------------------------------------
(* MetricsCalculator._calculate_hyperlinks_metric (HAM) *)

\* the inner for loop over soup.text.split(" "): does some token occur in
\* the href (the loop breaks at the first that does)
RECURSIVE token_loop(_, _, _)
token_loop(tokens, j, href) ==
    IF j > Len(tokens) THEN FALSE
    ELSE IF In(tokens[j], href) THEN TRUE
    ELSE token_loop(tokens, j + 1, href)

\* the loop without its "flag = False"
flag_kept(flag) == flag

\* "flag = False" after each hyperlink
flag_after_link(flag) == FALSE

\* the for loop over href_elements from position i; split(" ") always
\* yields a token, so soup('a')[0]['href'] is evaluated for every fragment:
\* IndexError (no <a>) and KeyError (no href) both escape
RECURSIVE href_loop(_, _, _, _)
href_loop(href_elements, i, count, flag) ==
    IF i > Len(href_elements) THEN [exc |-> "none", count |-> count]
    ELSE IF soup(href_elements[i], "a") = <<>>
         THEN [exc |-> "IndexError", count |-> count]
    ELSE IF ~HasAttr(soup(href_elements[i], "a")[1], "href")
         THEN [exc |-> "KeyError", count |-> count]
    ELSE LET found == token_loop(split(href_elements[i].text), 1,
                                 AttrOf(soup(href_elements[i], "a")[1], "href"))
             flag1 == flag \/ found
         IN  href_loop(href_elements, i + 1,
                       IF flag1 THEN count + 1 ELSE count,
                       flag_after_link(flag1))

calculate_hyperlinks_metric(row, href_elements) ==
    IF Len(href_elements) = 0 THEN Returned(Append(row, NoData))
    ELSE LET r == href_loop(href_elements, 1, 0, FALSE)
         IN  IF r.exc # "none" THEN Raised(row, r.exc)
             ELSE Returned(Append(row, Float(r.count, Len(href_elements))))

----------------------------------------------------------------------------
(* MetricsCalculator._calculate_label_input_metric (LIM) *)

\* the scan of the elif branch (label_tags empty): "unhidden" when some
\* input lacks hidden (0.0 is appended and the function returns),
\* "all_hidden" when the loop runs to its end
RECURSIVE hidden_scan(_, _)
hidden_scan(input_tags, i) ==
    IF i > Len(input_tags) THEN "all_hidden"
    ELSE IF soup(input_tags[i], "input") = <<>> THEN "IndexError"
    ELSE IF ~HasAttr(soup(input_tags[i], "input")[1], "hidden") THEN "unhidden"
    ELSE hidden_scan(input_tags, i + 1)

\* the for loop over label_tags for one input, from label j:
\* "counted" (count + 1 and break), "KeyError" (a label without for: caught
\* by the except of the input's try, which ends the loop), "IndexError" (no
\* <label> in the fragment: escapes), "exhausted"
RECURSIVE label_loop(_, _, _, _)
label_loop(input, input_id, label_tags, j) ==
    IF j > Len(label_tags) THEN "exhausted"
    ELSE IF soup(label_tags[j], "label") = <<>> THEN "IndexError"
    ELSE IF ~HasAttr(soup(label_tags[j], "label")[1], "for") THEN "KeyError"
    ELSE IF /\ In(input_id, AttrOf(soup(label_tags[j], "label")[1], "for"))
            /\ ~HasAttr(input, "hidden")
         THEN "counted"
    ELSE label_loop(input, input_id, label_tags, j + 1)

\* the for loop over input_tags from position i
RECURSIVE input_loop(_, _, _, _)
input_loop(label_tags, input_tags, i, count) ==
    IF i > Len(input_tags) THEN [exc |-> "none", count |-> count]
    ELSE IF soup(input_tags[i], "input") = <<>>
         THEN [exc |-> "IndexError", count |-> count]
    ELSE IF ~HasAttr(soup(input_tags[i], "input")[1], "id")
         THEN input_loop(label_tags, input_tags, i + 1, count)
    ELSE LET input == soup(input_tags[i], "input")[1]
             r == label_loop(input, AttrOf(input, "id"), label_tags, 1)
         IN  IF r = "IndexError" THEN [exc |-> "IndexError", count |-> count]
             ELSE IF r = "counted"
                  THEN input_loop(label_tags, input_tags, i + 1, count + 1)
             ELSE input_loop(label_tags, input_tags, i + 1, count)

\* lines 201-218: the general count
general_count(row, label_tags, input_tags) ==
    LET r == input_loop(label_tags, input_tags, 1, 0)
    IN  IF r.exc # "none" THEN Raised(row, r.exc)
        ELSE Returned(Append(row, Float(r.count, Len(input_tags))))

\* the elif branch appending the sentinel for an unlabeled input
calculate_label_input_metric_sentinel(row, label_tags, input_tags) ==
    IF Len(input_tags) = 0 THEN Returned(Append(row, NoData))
    ELSE IF Len(label_tags) = 0
         THEN LET h == hidden_scan(input_tags, 1)
              IN  IF h = "IndexError" THEN Raised(row, "IndexError")
                  ELSE IF h = "unhidden" THEN Returned(Append(row, NoData))
                  ELSE general_count(row, label_tags, input_tags)
    ELSE general_count(row, label_tags, input_tags)

\* the elif branch without its return: 0.0 is appended and the general
\* count runs as well
calculate_label_input_metric_no_return(row, label_tags, input_tags) ==
    IF Len(input_tags) = 0 THEN Returned(Append(row, NoData))
    ELSE IF Len(label_tags) = 0
         THEN LET h == hidden_scan(input_tags, 1)
              IN  IF h = "IndexError" THEN Raised(row, "IndexError")
                  ELSE IF h = "unhidden"
                       THEN general_count(Append(row, Float(0, 1)), label_tags,
                                          input_tags)
                  ELSE general_count(row, label_tags, input_tags)
    ELSE general_count(row, label_tags, input_tags)

calculate_label_input_metric(row, label_tags, input_tags) ==
    IF Len(input_tags) = 0 THEN Returned(Append(row, NoData))
    ELSE IF Len(label_tags) = 0
         THEN LET h == hidden_scan(input_tags, 1)
              IN  IF h = "IndexError" THEN Raised(row, "IndexError")
                  ELSE IF h = "unhidden" THEN Returned(Append(row, Float(0, 1)))
                  ELSE general_count(row, label_tags, input_tags)
    ELSE general_count(row, label_tags, input_tags)

----------------------------------------------------------------------------
(* MetricsCalculator._get_accessibility_percent *)

\* What the lookup meets: nav_raises, anything from webdriver.Chrome to the
\* first page_source raising; first, the text of the div on the first page
\* read (absent: soup.find gives None); retry_raises, page_source raising in
\* the handler; retry, the text of the div on the second read.
LookupOutcome(nav_raises, first, retry_raises, retry) ==
    [nav_raises |-> nav_raises, first |-> first,
     retry_raises |-> retry_raises, retry |-> retry]

\* the first handler appending the sentinel before it retries
get_accessibility_percent_twice(row, o) ==
    IF o.nav_raises THEN Returned(Append(row, Str("-1%")))
    ELSE IF o.first # NoAttr THEN Returned(Append(row, Str(o.first[1])))
    ELSE IF o.retry_raises THEN Returned(Append(Append(row, Str("-1%")), Str("-1%")))
    ELSE IF o.retry # NoAttr
         THEN Returned(Append(Append(row, Str("-1%")), Str(o.retry[1])))
    ELSE Returned(Append(Append(row, Str("-1%")), Str("-1%")))

get_accessibility_percent(row, o) ==
    IF o.nav_raises THEN Returned(Append(row, Str("-1%")))
    ELSE IF o.first # NoAttr THEN Returned(Append(row, Str(o.first[1])))
    ELSE IF o.retry_raises THEN Returned(Append(row, Str("-1%")))
    ELSE IF o.retry # NoAttr THEN Returned(Append(row, Str(o.retry[1])))
    ELSE Returned(Append(row, Str("-1%")))

----------------------------------------------------------------------------
(* Files.  A site's record is the file <name>.json; a directory is a map   *)
(* from site names to what the file holds, beside its results.csv.         *)

SiteName == <<"s1", "s2", "s3", "s4", "s5", "s6">>
AllNames == {SiteName[i] : i \in 1..Len(SiteName)}
RESULTS_CSV == "results.csv"

\* json.dump(entry) of HTMLScraper._add_to_json's entry
Record(name, alt_tags, href_tags, label_tags, input_tags) ==
    [kind |-> "json", name |-> name, alt_tags |-> alt_tags,
     href_tags |-> href_tags, label_tags |-> label_tags,
     input_tags |-> input_tags]
\* no such file
NoRecord == [kind |-> "absent", name |-> "", alt_tags |-> <<>>,
             href_tags |-> <<>>, label_tags |-> <<>>, input_tags |-> <<>>]
\* a file opened with "w" whose json.dump of rec has not finished
Partial(rec) == [rec EXCEPT !.kind = "partial"]

Body(alt_tags, href_tags, label_tags, input_tags) ==
    [alt_tags |-> alt_tags, href_tags |-> href_tags,
     label_tags |-> label_tags, input_tags |-> input_tags]
RecordOf(name, b) ==
    Record(name, b.alt_tags, b.href_tags, b.label_tags, b.input_tags)

NoTable == [exists |-> FALSE, rows |-> <<>>]
EmptyDir == [n \in AllNames |-> NoRecord]

\* os.listdir(d): the names in the directory, in any order
DirNames(d) ==
    {n \in AllNames : json_files[d][n].kind # "absent"}
        \cup (IF results_csv[d].exists THEN {RESULTS_CSV} ELSE {})
Orders(S) ==
    {f \in [1..Cardinality(S) -> S] :
        \A i, j \in 1..Cardinality(S) : f[i] = f[j] => i = j}

\* json.load of a listed file: only a finished .json file is a record
Loads(d, file) ==
    /\ file # RESULTS_CSV
    /\ json_files[d][file].kind = "json"

NoLookup == LookupOutcome(FALSE, NoAttr, FALSE, NoAttr)
LookupOutcomes ==
    { LookupOutcome(TRUE, NoAttr, FALSE, NoAttr),
      LookupOutcome(FALSE, Some("87%"), FALSE, NoAttr),
      LookupOutcome(FALSE, NoAttr, TRUE, NoAttr),
      LookupOutcome(FALSE, NoAttr, FALSE, Some("42%")),
      LookupOutcome(FALSE, NoAttr, FALSE, NoAttr) }

----------------------------------------------------------------------------
(* MetricsCalculator, run by process p *)

\* __init__ and the head of calculate_metrics: os.listdir is read once
MC_Init(p) ==
    /\ pc[p] = "mc_init"
    /\ row_data' = [row_data EXCEPT ![p] = <<>>]
    /\ runs' = [runs EXCEPT ![p] = @ + 1]
    /\ \E order \in Orders(DirNames(directory_path[p])) :
          /\ listing' = [listing EXCEPT ![p] = order]
          /\ pc' = [pc EXCEPT ![p] = IF Len(order) = 0 THEN "done" ELSE "mc_load"]
    /\ idx' = [idx EXCEPT ![p] = 1]
    /\ UNCHANGED <<directory_path, data, lookup, fs_vars, run_vars>>

\* open the next listed file, json.load it, append data["name"]; a file
\* that is not JSON raises JSONDecodeError out of calculate_metrics
MC_Load(p) ==
    /\ pc[p] = "mc_load"
    /\ LET d == directory_path[p]
           file == listing[p][idx[p]]
       IN  IF Loads(d, file)
           THEN /\ data' = [data EXCEPT ![p] = json_files[d][file]]
                /\ row_data' = [row_data EXCEPT
                                  ![p] = Append(@, Str(json_files[d][file].name))]
                /\ pc' = [pc EXCEPT ![p] = "mc_alt"]
           ELSE /\ pc' = [pc EXCEPT ![p] = "crashed"]
                /\ UNCHANGED <<data, row_data>>
    /\ UNCHANGED <<directory_path, listing, idx, lookup, runs, fs_vars, run_vars>>

\* one metric call: the row it leaves, and the crash when it raises
MetricStep(p, r, next) ==
    /\ row_data' = [row_data EXCEPT ![p] = r.row]
    /\ pc' = [pc EXCEPT ![p] = IF r.exc = "none" THEN next ELSE "crashed"]
    /\ UNCHANGED <<directory_path, listing, idx, data, runs, fs_vars, run_vars>>

MC_Alt(p) ==
    /\ pc[p] = "mc_alt"
    /\ MetricStep(p, calculate_alt_metric(row_data[p], data[p].alt_tags), "mc_href")
    /\ UNCHANGED lookup

MC_Href(p) ==
    /\ pc[p] = "mc_href"
    /\ MetricStep(p, calculate_hyperlinks_metric(row_data[p], data[p].href_tags),
                  "mc_lim")
    /\ UNCHANGED lookup

MC_Lim(p) ==
    /\ pc[p] = "mc_lim"
    /\ MetricStep(p, calculate_label_input_metric(row_data[p], data[p].label_tags,
                                                  data[p].input_tags), "mc_ap")
    /\ UNCHANGED lookup

MC_AP(p) ==
    /\ pc[p] = "mc_ap"
    /\ \E o \in LookupOutcomes :
          /\ lookup' = [lookup EXCEPT ![p] = o]
          /\ MetricStep(p, get_accessibility_percent(row_data[p], o), "mc_write")

\* the write without "self.row_data = []"
MC_Write_keeps_row(p) ==
    /\ pc[p] = "mc_write"
    /\ results_csv' = [results_csv EXCEPT ![directory_path[p]] =
                          [exists |-> TRUE, rows |-> Append(@.rows, row_data[p])]]
    /\ idx' = [idx EXCEPT ![p] = @ + 1]
    /\ pc' = [pc EXCEPT ![p] = IF idx[p] + 1 > Len(listing[p]) THEN "done"
                               ELSE "mc_load"]
    /\ lookup' = [lookup EXCEPT ![p] = NoLookup]
    /\ UNCHANGED <<directory_path, row_data, listing, data, runs, json_files, run_vars>>

\* writer.writerow(self.row_data) on results.csv opened with "a", then
\* self.row_data = [], then the next file of the listing or the loop's end
MC_Write(p) ==
    /\ pc[p] = "mc_write"
    /\ results_csv' = [results_csv EXCEPT ![directory_path[p]] =
                          [exists |-> TRUE, rows |-> Append(@.rows, row_data[p])]]
    /\ row_data' = [row_data EXCEPT ![p] = <<>>]
    /\ idx' = [idx EXCEPT ![p] = @ + 1]
    /\ pc' = [pc EXCEPT ![p] = IF idx[p] + 1 > Len(listing[p]) THEN "done"
                               ELSE "mc_load"]
    /\ lookup' = [lookup EXCEPT ![p] = NoLookup]
    /\ UNCHANGED <<directory_path, listing, data, runs, json_files, run_vars>>

\* the caller constructs MetricsCalculator on the same directory a second
\* time, after the first run has ended
MC_Again(p) ==
    /\ pc[p] \in {"done", "crashed"}
    /\ runs[p] = 1
    /\ pc' = [pc EXCEPT ![p] = "mc_init"]
    /\ UNCHANGED <<directory_path, row_data, listing, idx, data, lookup, runs,
                   fs_vars, run_vars>>

----------------------------------------------------------------------------
(* The fragments the bounded inputs are built from *)

ImgFrag(alt) == Elem("img", alt, NoAttr, NoAttr, NoAttr, NoAttr, <<>>)
AFrag(href, text) == Elem("a", NoAttr, href, NoAttr, NoAttr, NoAttr, text)
LabelFrag(for) == Elem("label", NoAttr, NoAttr, for, NoAttr, NoAttr, <<>>)
InputFrag(id, hidden) == Elem("input", NoAttr, NoAttr, NoAttr, id, hidden, <<>>)
\* markup holding none of the four elements, such as <p>x</p>
OtherFrag == Elem("p", NoAttr, NoAttr, NoAttr, NoAttr, NoAttr, <<"x">>)

txt_a_photo == <<"a"," ","p","h","o","t","o">>
AltValues ==
    { <<>>, txt_image, <<"I","m","a","g","e">>, txt_a_photo, <<"i","m","a","g","e","s">>,
      <<"g","r","a","p","h","i","c"," ","o","f"," ","x">>, <<"a","n"," ","I","m","a","g","e"," ","o","f"," ","x">>, <<"P","i","c","t","u","r","e"," ","O","f">>, <<"T","h","i","s"," ","i","s"," ","a","n"," ","i","m","a","g","e"," ","o","f"," ","x">> }
ImgFrags == {ImgFrag(NoAttr)} \cup {ImgFrag(Some(v)) : v \in AltValues}

txt_slash_shoes == <<"/","s","h","o","e","s">>
txt_products_shoes == <<"/","p","r","o","d","u","c","t","s","/","s","h","o","e","s">>
txt_shoes == <<"s","h","o","e","s">>
txt_Shoes == <<"S","h","o","e","s">>
LinkTexts ==
    { <<>>, txt_shoes, txt_Shoes, <<"r","e","d"," ","s","h","o","e","s">>, <<"r","e","d"," "," ","h","a","t">>,
      <<"r","e","d"," ","h","a","t">>, <<" ","h","a","t">> }
LinkHrefs == {txt_slash_shoes, txt_products_shoes}
\* soup.findAll('a', href=True): every stored <a> carries an href
AFrags == {AFrag(Some(h), t) : h \in LinkHrefs, t \in LinkTexts}

txt_x == <<"x">>
txt_y == <<"y">>
txt_x_field == <<"x","-","f","i","e","l","d">>
LabelFrags == {LabelFrag(NoAttr)}
                  \cup {LabelFrag(Some(v)) : v \in {txt_x, txt_x_field, txt_y}}
InputFrags == {InputFrag(i, h) : i \in {NoAttr, Some(txt_x), Some(txt_y)},
                                 h \in {NoAttr, Some(<<>>)}}

TagLists(S) == UNION {[1..n -> S] : n \in 0..MaxTags}

\* HTMLScraper._parse_required_tags stores str(elem) of elements found by
\* tag name, so every stored fragment parses as its element.  The three
\* metrics read disjoint arguments: each family of records lets one
\* metric's lists range over every bounded list.
EvalBodies ==
    {Body(a, <<>>, <<>>, <<>>) : a \in TagLists(ImgFrags)}
        \cup {Body(<<>>, h, <<>>, <<>>) : h \in TagLists(AFrags)}
        \cup {Body(<<>>, <<>>, l, i) : l \in TagLists(LabelFrags),
                                        i \in TagLists(InputFrags)}

----------------------------------------------------------------------------
(* SpecEval: the three metric calls on one loaded record *)

IdleRun ==
    /\ main_pc = "off"
    /\ urls = <<>>
    /\ shard = [p \in Procs |-> [exists |-> FALSE, lines |-> <<>>]]
    /\ pos = [p \in Procs |-> 1]
    /\ FAILURES = [p \in Procs |-> <<>>]
    /\ failures_txt = [exists |-> FALSE, lines |-> <<>>]
    /\ out_dir = 0

InitEval ==
    /\ \E b \in EvalBodies :
          /\ data = [p \in Procs |-> IF p = 1 THEN RecordOf(SiteName[1], b)
                                     ELSE NoRecord]
          /\ json_files = [d \in Dirs |->
                             IF d = 0 THEN [EmptyDir EXCEPT
                                              ![SiteName[1]] = RecordOf(SiteName[1], b)]
                             ELSE EmptyDir]
    /\ pc = [p \in Procs |-> IF p = 1 THEN "mc_alt" ELSE "idle"]
    /\ directory_path = [p \in Procs |-> 0]
    /\ row_data = [p \in Procs |-> IF p = 1 THEN <<Str(SiteName[1])>> ELSE <<>>]
    /\ listing = [p \in Procs |-> IF p = 1 THEN <<SiteName[1]>> ELSE <<>>]
    /\ idx = [p \in Procs |-> 1]
    /\ lookup = [p \in Procs |-> NoLookup]
    /\ runs = [p \in Procs |-> IF p = 1 THEN 1 ELSE 0]
    /\ results_csv = [d \in Dirs |-> NoTable]
    /\ IdleRun

NextEval == \E p \in Procs : MC_Alt(p) \/ MC_Href(p) \/ MC_Lim(p)

SpecEval == InitEval /\ [][NextEval]_vars

----------------------------------------------------------------------------
(* Claims about the metric values (SpecEval) *)

\* the metric calls that have returned on process 1's current record
AltDone == pc[1] \in {"mc_href", "mc_lim", "mc_ap"}
HrefDone == pc[1] \in {"mc_lim", "mc_ap"}
LimDone == pc[1] = "mc_ap"

IsRatio(c) == c.t = "float" /\ 0 <= c.n /\ c.n <= c.d /\ c.d > 0
IsMetricValue(c, governing) ==
    /\ c = NoData \/ IsRatio(c)
    /\ c = NoData <=> governing = <<>>

\* C1: on a record whose fragments all parse as their element, each of the
\* three metric calls appends one value, which is "No Data" exactly when
\* the governing list (alt_tags, href_tags, input_tags) is empty and
\* otherwise a ratio count/total with 0 <= count <= total and total > 0.
C1_MetricValueRange ==
    /\ pc[1] # "crashed"
    /\ AltDone => /\ Len(row_data[1]) >= 2
                  /\ IsMetricValue(row_data[1][2], data[1].alt_tags)
    /\ HrefDone => /\ Len(row_data[1]) >= 3
                   /\ IsMetricValue(row_data[1][3], data[1].href_tags)
    /\ LimDone => /\ Len(row_data[1]) = 4
                  /\ IsMetricValue(row_data[1][4], data[1].input_tags)

C1_Witness ==
    /\ LimDone
    /\ data[1].input_tags # <<>>
    /\ data[1].label_tags = <<>>
    /\ row_data[1][4] = Float(0, 1)
    /\ row_data[1][2] = NoData

\* the claim's reading of a meaningful alt value
Boilerplate == {txt_graphic_of, txt_image_of, txt_picture_of, txt_this_is_an_image_of}
MeaningfulAlt(v) ==
    ~ \/ lower(v) = <<>>
      \/ lower(v) = txt_image
      \/ \E b \in Boilerplate : In(b, lower(v))
MeaningfulImgs(tags) ==
    {i \in 1..Len(tags) : tags[i].alt # NoAttr /\ MeaningfulAlt(tags[i].alt[1])}

\* C2: ITAA of a non-empty img list is (fragments with an alt attribute
\* whose value is meaningful) / (all fragments); a fragment without alt
\* counts in the denominator only; all meaningful gives 1.0, all alts empty
\* gives 0.0.
C2_ITAA ==
    (AltDone /\ data[1].alt_tags # <<>>) =>
        LET tags == data[1].alt_tags
        IN  /\ row_data[1][2] = Float(Cardinality(MeaningfulImgs(tags)), Len(tags))
            /\ (\A i \in 1..Len(tags) : tags[i].alt = Some(txt_a_photo))
                   => (row_data[1][2].n = 1 /\ row_data[1][2].d = 1)
            /\ (\A i \in 1..Len(tags) : tags[i].alt = Some(<<>>))
                   => row_data[1][2].n = 0

C2_Witness ==
    /\ AltDone
    /\ Len(data[1].alt_tags) = 2
    /\ data[1].alt_tags[1].alt = NoAttr
    /\ data[1].alt_tags[2].alt = Some(txt_a_photo)
    /\ row_data[1][2].n = 1 /\ row_data[1][2].d = 2

\* the tokens of a text cut at single spaces: the stretches without a space
\* that reach from the start or a space to a space or the end, the empty
\* stretches among them
Tokens(s) ==
    {SubSeq(s, a, b) : <<a, b>> \in
        {ab \in (1..Len(s) + 1) \X (0..Len(s)) :
            /\ ab[2] >= ab[1] - 1
            /\ ab[1] = 1 \/ s[ab[1] - 1] = " "
            /\ ab[2] = Len(s) \/ s[ab[2] + 1] = " "
            /\ \A k \in ab[1]..ab[2] : s[k] # " "}}
AccessibleLink(f) == \E tok \in Tokens(f.text) : In(tok, f.href[1])
AccessibleLinks(tags) == {i \in 1..Len(tags) : AccessibleLink(tags[i])}

\* C3: HAM of a non-empty href list is (accessible links) / (all links); a
\* link is accessible iff some token of its text, cut at single spaces, is a
\* case-sensitive substring of its href; an empty token always matches; the
\* decision for one link does not carry over to the next ("Shoes" with
\* "/products/shoes" is inaccessible, "shoes" with "/shoes" accessible).
C3_HAM ==
    (HrefDone /\ data[1].href_tags # <<>>) =>
        LET tags == data[1].href_tags
        IN  /\ row_data[1][3] = Float(Cardinality(AccessibleLinks(tags)), Len(tags))
            /\ \A i \in 1..Len(tags) :
                  <<>> \in Tokens(tags[i].text) => i \in AccessibleLinks(tags)
            /\ tags = <<AFrag(Some(txt_products_shoes), txt_Shoes)>>
                   => row_data[1][3].n = 0
            /\ tags = <<AFrag(Some(txt_slash_shoes), txt_shoes)>>
                   => (row_data[1][3].n = 1 /\ row_data[1][3].d = 1)

C3_Witness ==
    /\ HrefDone
    /\ data[1].href_tags = <<AFrag(Some(txt_slash_shoes), txt_shoes),
                             AFrag(Some(txt_products_shoes), txt_Shoes)>>
    /\ row_data[1][3].n = 1 /\ row_data[1][3].d = 2

MatchedInput(f, labels) ==
    /\ f.id # NoAttr
    /\ f.hidden = NoAttr
    /\ \E j \in 1..Len(labels) :
          labels[j].for # NoAttr /\ In(f.id[1], labels[j].for[1])
MatchedInputs(inputs, labels) ==
    {i \in 1..Len(inputs) : MatchedInput(inputs[i], labels)}

\* C4: LIM with non-empty input_tags and label_tags is (matched inputs) /
\* (all inputs); an input is matched iff it has an id, has no hidden and
\* some label's for contains the id; a label without for does not match and
\* does not stop the later labels from being examined.
C4_LIM ==
    (LimDone /\ data[1].input_tags # <<>> /\ data[1].label_tags # <<>>) =>
        row_data[1][4] = Float(Cardinality(MatchedInputs(data[1].input_tags,
                                                         data[1].label_tags)),
                               Len(data[1].input_tags))

\* what the code counts: the labels are examined in order, and a label
\* without for ends the examination of that input
CountedInput(f, labels) ==
    /\ f.id # NoAttr
    /\ f.hidden = NoAttr
    /\ \E j \in 1..Len(labels) :
          /\ \A k \in 1..j : labels[k].for # NoAttr
          /\ In(f.id[1], labels[j].for[1])
LIM_AsCoded ==
    (LimDone /\ data[1].input_tags # <<>> /\ data[1].label_tags # <<>>) =>
        row_data[1][4] =
            Float(Cardinality({i \in 1..Len(data[1].input_tags) :
                                  CountedInput(data[1].input_tags[i],
                                               data[1].label_tags)}),
                  Len(data[1].input_tags))

AllHidden(inputs) == \A i \in 1..Len(inputs) : inputs[i].hidden # NoAttr

\* C5: LIM with non-empty input_tags and empty label_tags appends exactly
\* one value, 0.0: by the short-circuit at the first input without hidden,
\* or, when every input is hidden, by the general count's 0/len(input_tags).
C5_LIMNoLabels ==
    /\ (LimDone /\ data[1].input_tags # <<>> /\ data[1].label_tags = <<>>) =>
          /\ Len(row_data[1]) = 4
          /\ row_data[1][4] = Float(0, 1)
    /\ (pc[1] = "mc_lim" /\ data[1].input_tags # <<>> /\ data[1].label_tags = <<>>) =>
          /\ ~AllHidden(data[1].input_tags)
                => hidden_scan(data[1].input_tags, 1) = "unhidden"
          /\ AllHidden(data[1].input_tags)
                => /\ hidden_scan(data[1].input_tags, 1) = "all_hidden"
                   /\ general_count(row_data[1], <<>>, data[1].input_tags)
                        = Returned(Append(row_data[1], Float(0, 1)))

C5_Witness ==
    /\ LimDone
    /\ data[1].label_tags = <<>>
    /\ Len(data[1].input_tags) = 2
    /\ AllHidden(data[1].input_tags)
    /\ row_data[1] = <<Str(SiteName[1]), NoData, NoData, Float(0, 1)>>

----------------------------------------------------------------------------
(* Spec: MetricsCalculator constructed on a directory of stored records,   *)
(* and constructed again on the same directory                             *)

B_full ==
    Body(<<ImgFrag(Some(txt_a_photo))>>,
         <<AFrag(Some(txt_slash_shoes), txt_shoes)>>,
         <<LabelFrag(Some(txt_x_field))>>,
         <<InputFrag(Some(txt_x), NoAttr)>>)
B_empty == Body(<<>>, <<>>, <<>>, <<>>)
B_mixed ==
    Body(<<ImgFrag(Some(txt_a_photo)), ImgFrag(Some(<<>>))>>,
         <<AFrag(Some(txt_products_shoes), txt_Shoes)>>,
         <<>>,
         <<InputFrag(Some(txt_x), NoAttr)>>)
\* records no scrape produces: an alt-tags string without an <img>, and an
\* <a> without href
B_no_img == [B_full EXCEPT !.alt_tags = <<OtherFrag>>]
B_no_href == [B_empty EXCEPT !.href_tags = <<AFrag(NoAttr, txt_shoes)>>]

AggBodies == <<B_empty, B_mixed, B_no_img, B_no_href>>

\* The directories of n records: os.listdir yields the names in any order,
\* so which name carries which body is immaterial and the bodies are taken
\* in the order of AggBodies.
BodyChoices(n) ==
    {c \in [1..n -> 1..Len(AggBodies)] : \A i \in 1..n, j \in 1..n : i <= j => c[i] <= c[j]}

NameIndex(nm) == CHOOSE i \in 1..Len(SiteName) : SiteName[i] = nm

\* the directory holds the records of s1..sn
DirOf(c) ==
    [nm \in AllNames |->
        IF NameIndex(nm) <= Len(c) THEN RecordOf(nm, AggBodies[c[NameIndex(nm)]])
        ELSE NoRecord]

Init ==
    /\ \E n \in 0..MaxFiles : \E c \in BodyChoices(n) :
          json_files = [d \in Dirs |-> IF d = 0 THEN DirOf(c) ELSE EmptyDir]
    /\ results_csv = [d \in Dirs |-> NoTable]
    /\ pc = [p \in Procs |-> IF p = 1 THEN "mc_init" ELSE "idle"]
    /\ directory_path = [p \in Procs |-> 0]
    /\ row_data = [p \in Procs |-> <<>>]
    /\ listing = [p \in Procs |-> <<>>]
    /\ idx = [p \in Procs |-> 1]
    /\ data = [p \in Procs |-> NoRecord]
    /\ lookup = [p \in Procs |-> NoLookup]
    /\ runs = [p \in Procs |-> 0]
    /\ IdleRun

MC_Step(p) ==
    \/ MC_Init(p)
    \/ MC_Load(p)
    \/ MC_Alt(p)
    \/ MC_Href(p)
    \/ MC_Lim(p)
    \/ MC_AP(p)
    \/ MC_Write(p)

Next == \E p \in Procs : MC_Step(p) \/ MC_Again(p)

Spec == Init /\ [][Next]_vars

----------------------------------------------------------------------------
(* Claims about the aggregation run (Spec) *)

\* the fragment records stored in directory d
StoredRecords(d) == {nm \in AllNames : json_files[d][nm].kind = "json"}
Table(d) == results_csv[d].rows
InFirstRun == runs[1] = 1 /\ pc[1] # "mc_init"

\* C6: in a run over a directory of N records, once k records of the
\* listing have been processed the table holds exactly k rows, row i named
\* after the i-th listed record, and the row buffer is empty before the next
\* record starts; on completion the table holds N rows in listing order,
\* and whenever the run stops the table holds complete rows only.
C6_OneRowPerRecord ==
    InFirstRun =>
        /\ Len(Table(0)) = (IF pc[1] = "done" THEN Len(listing[1]) ELSE idx[1] - 1)
        /\ \A i \in 1..Len(Table(0)) :
              /\ Len(Table(0)[i]) = 5
              /\ Table(0)[i][1] = Str(json_files[0][listing[1][i]].name)
        /\ pc[1] \in {"mc_load", "done"} => row_data[1] = <<>>
        /\ pc[1] = "done" =>
              /\ Len(Table(0)) = Cardinality(StoredRecords(0))
              /\ {listing[1][i] : i \in 1..Len(listing[1])} = StoredRecords(0)

C6_Witness ==
    /\ InFirstRun
    /\ pc[1] = "done"
    /\ Cardinality(StoredRecords(0)) = 2
    /\ Len(Table(0)) = 2
    /\ Table(0)[1][1] = Str(SiteName[2])
    /\ Table(0)[2][1] = Str(SiteName[1])

\* C7: a record with a fragment that does not parse as its element (or an
\* <a> without href) raises nothing out of calculate_metrics: the run over
\* a directory of records does not stop before every record has its row.
C7_MalformedRecordKeepsRunning ==
    InFirstRun =>
        /\ pc[1] # "crashed"
        /\ pc[1] = "done" => Len(Table(0)) = Cardinality(StoredRecords(0))

\* the fifth column the claim names for a lookup outcome
ExpectedPercent(o) ==
    IF o.nav_raises THEN "-1%"
    ELSE IF o.first # NoAttr THEN o.first[1]
    ELSE IF ~o.retry_raises /\ o.retry # NoAttr THEN o.retry[1]
    ELSE "-1%"

\* C8: every row written has exactly five columns (name, ITAA, HAM, LIM,
\* accessibility_percent); the fifth is the text of the first page read,
\* else the text of the single retry read, else "-1%" (also when the
\* navigation raises); no lookup outcome raises or appends two values.
C8_RowShape ==
    /\ \A d \in Dirs : \A i \in 1..Len(Table(d)) :
          /\ Len(Table(d)[i]) = 5
          /\ Table(d)[i][1].t = "str"
          /\ \A c \in 2..4 : Table(d)[i][c] = NoData \/ IsRatio(Table(d)[i][c])
          /\ Table(d)[i][5].t = "str"
    /\ \A p \in Procs :
          /\ pc[p] = "mc_write" =>
                /\ Len(row_data[p]) = 5
                /\ row_data[p][5] = Str(ExpectedPercent(lookup[p]))
          /\ pc[p] = "mc_ap" =>
                \A o \in LookupOutcomes :
                    /\ get_accessibility_percent(row_data[p], o).exc = "none"
                    /\ Len(get_accessibility_percent(row_data[p], o).row) = 5

C8_Witness ==
    /\ pc[1] = "mc_write"
    /\ lookup[1].first = NoAttr
    /\ lookup[1].retry = Some("42%")
    /\ row_data[1] = <<Str(SiteName[1]), Float(1, 2), Float(0, 1), Float(0, 1), Str("42%")>>

\* every stored record of directory d parses: the first run completes
WellFormedDir(d) ==
    \A nm \in StoredRecords(d) :
        /\ \A i \in 1..Len(json_files[d][nm].alt_tags) :
              json_files[d][nm].alt_tags[i].tag = "img"
        /\ \A i \in 1..Len(json_files[d][nm].href_tags) :
              /\ json_files[d][nm].href_tags[i].tag = "a"
              /\ json_files[d][nm].href_tags[i].href # NoAttr

\* C10: a second run on a directory holding N records and the results.csv
\* of the first run completes and appends N more rows: the table then holds
\* 2N rows, each record's row twice, the first run's rows unchanged.
C10_RerunAccumulates ==
    (WellFormedDir(0) /\ runs[1] = 2 /\ pc[1] \in {"done", "crashed"}) =>
        /\ pc[1] = "done"
        /\ Len(Table(0)) = 2 * Cardinality(StoredRecords(0))
        /\ \A nm \in StoredRecords(0) :
              Cardinality({i \in 1..Len(Table(0)) : Table(0)[i][1] = Str(nm)}) = 2

----------------------------------------------------------------------------
(* SpecRun: startup.py's main routine and its NUM_PROCESSES workers, each  *)
(* an HTMLScraper on its shard followed by MetricsCalculator(csv_path)     *)

Min(a, b) == IF a < b THEN a ELSE b
\* Python's s[a:b], positions from 0
Slice(s, a, b) == SubSeq(s, a + 1, Min(b, Len(s)))

NoShard == [exists |-> FALSE, lines |-> <<>>]
\* what _parse_required_tags finds on a page that loads
PageBodies == {B_full}
ShardFile(lines) == [exists |-> TRUE, lines |-> lines]

\* the for loop "for j in range(0, total)" from j, writing <filename>.csv
RECURSIVE split_loop(_, _, _, _, _)
split_loop(csv_file, div_j, j, filename, files) ==
    IF j >= Len(csv_file) THEN files
    ELSE IF j % div_j = 0
         THEN LET f1 == [files EXCEPT
                           ![filename] = ShardFile(Slice(csv_file, j, j + div_j))]
              IN  IF filename + 1 = NUM_PROCESSES
                  THEN [f1 EXCEPT ![filename + 1] =
                           ShardFile(Slice(csv_file, j + div_j, Len(csv_file)))]
                  ELSE split_loop(csv_file, div_j, j + 1, filename + 1, f1)
    ELSE split_loop(csv_file, div_j, j + 1, filename, files)

\* the main routine: with fewer lines than processes div_j is 0 and
\* "j % div_j" raises ZeroDivisionError before any process is started
\* (with no line at all the loop body never runs and no shard is written)
Main ==
    /\ main_pc = "start"
    /\ LET total == Len(urls)
           div_j == total \div NUM_PROCESSES
       IN  IF total > 0 /\ div_j = 0
           THEN /\ main_pc' = "crashed"
                /\ UNCHANGED <<shard, pc>>
           ELSE /\ main_pc' = "started"
                /\ shard' = IF total = 0 THEN shard
                            ELSE split_loop(urls, div_j, 0, 1, shard)
                /\ pc' = [p \in Procs |-> "open"]
    /\ UNCHANGED <<directory_path, row_data, listing, idx, data, lookup, runs,
                   fs_vars, urls, pos, FAILURES, failures_txt, out_dir>>

\* _run_scraper: open(self.target_csv)
W_Open(p) ==
    /\ pc[p] = "open"
    /\ pc' = [pc EXCEPT ![p] = IF shard[p].exists THEN "scrape" ELSE "crashed"]
    /\ UNCHANGED <<directory_path, row_data, listing, idx, data, lookup, runs,
                   fs_vars, run_vars>>

\* _scrape_html(line[-1]): a WebDriverException puts the link on FAILURES;
\* otherwise the parsed tags go to _write_to_json, which opens
\* <output_path>/<link>.json with "w"
W_Scrape(p) ==
    /\ pc[p] = "scrape"
    /\ pos[p] <= Len(shard[p].lines)
    /\ LET link == shard[p].lines[pos[p]]
       IN  \/ /\ FAILURES' = [FAILURES EXCEPT ![p] = Append(@, link)]
              /\ pos' = [pos EXCEPT ![p] = @ + 1]
              /\ UNCHANGED <<pc, json_files>>
           \/ \E b \in PageBodies :
                 /\ json_files' = [json_files EXCEPT
                                     ![p][link] = Partial(RecordOf(link, b))]
                 /\ pc' = [pc EXCEPT ![p] = "dump"]
                 /\ UNCHANGED <<FAILURES, pos>>
    /\ UNCHANGED <<directory_path, row_data, listing, idx, data, lookup, runs,
                   results_csv, main_pc, urls, shard, failures_txt, out_dir>>

\* json.dump(entry, json_file) done and the file closed
W_Dump(p) ==
    /\ pc[p] = "dump"
    /\ LET link == shard[p].lines[pos[p]]
       IN  json_files' = [json_files EXCEPT ![p][link].kind = "json"]
    /\ pos' = [pos EXCEPT ![p] = @ + 1]
    /\ pc' = [pc EXCEPT ![p] = "scrape"]
    /\ UNCHANGED <<directory_path, row_data, listing, idx, data, lookup, runs,
                   results_csv, main_pc, urls, shard, FAILURES, failures_txt, out_dir>>

\* after the last line: failures.txt is opened with "w" and written from
\* this process's FAILURES, then MetricsCalculator(self.csv_path)
W_Finish(p) ==
    /\ pc[p] = "scrape"
    /\ pos[p] > Len(shard[p].lines)
    /\ failures_txt' = [exists |-> TRUE, lines |-> FAILURES[p]]
    /\ directory_path' = [directory_path EXCEPT ![p] = out_dir]
    /\ pc' = [pc EXCEPT ![p] = "mc_init"]
    /\ UNCHANGED <<row_data, listing, idx, data, lookup, runs, fs_vars,
                   main_pc, urls, shard, pos, FAILURES, out_dir>>

InitRun ==
    /\ main_pc = "start"
    /\ \E total \in 0..MaxUrls : urls = [i \in 1..total |-> SiteName[i]]
    /\ out_dir \in Dirs
    /\ shard = [p \in Procs |-> NoShard]
    /\ pos = [p \in Procs |-> 1]
    /\ FAILURES = [p \in Procs |-> <<>>]
    /\ failures_txt = [exists |-> FALSE, lines |-> <<>>]
    /\ json_files = [d \in Dirs |-> EmptyDir]
    /\ results_csv = [d \in Dirs |-> NoTable]
    /\ pc = [p \in Procs |-> "idle"]
    /\ directory_path = [p \in Procs |-> 0]
    /\ row_data = [p \in Procs |-> <<>>]
    /\ listing = [p \in Procs |-> <<>>]
    /\ idx = [p \in Procs |-> 1]
    /\ data = [p \in Procs |-> NoRecord]
    /\ lookup = [p \in Procs |-> NoLookup]
    /\ runs = [p \in Procs |-> 0]

Worker(p) ==
    \/ W_Open(p)
    \/ W_Scrape(p)
    \/ W_Dump(p)
    \/ W_Finish(p)
    \/ MC_Step(p)

NextRun == Main \/ \E p \in Procs : Worker(p)

SpecRun == InitRun /\ [][NextRun]_vars

----------------------------------------------------------------------------
(* Claims about the full run (SpecRun) *)

AllWorkersFinished ==
    /\ main_pc = "started"
    /\ \A p \in Procs : pc[p] \in {"done", "crashed"}

\* the sites whose fragment record some worker scraped and stored
StoredSites == UNION {StoredRecords(d) : d \in Procs}

\* C9: when all NUM_PROCESSES workers have finished, results.csv in the
\* output directory holds exactly one row for each site whose record some
\* worker stored, under every interleaving, and no worker has failed on a
\* file another worker wrote.
C9_OneRowPerStoredSite ==
    (AllWorkersFinished /\ Len(urls) >= NUM_PROCESSES) =>
        /\ \A p \in Procs : pc[p] = "done"
        /\ Len(Table(out_dir)) = Cardinality(StoredSites)
        /\ \A nm \in StoredSites :
              Cardinality({i \in 1..Len(Table(out_dir)) :
                              Table(out_dir)[i][1] = Str(nm)}) = 1

\* every worker has left its scraping loop and written failures.txt
AllScrapingDone ==
    /\ main_pc = "started"
    /\ \A p \in Procs : pc[p] \notin {"idle", "open", "scrape", "dump", "crashed"}
                          \/ (pc[p] = "crashed" /\ runs[p] > 0)

\* the URLs whose scrape raised WebDriverException in some worker
FailedUrls == UNION {{FAILURES[p][i] : i \in 1..Len(FAILURES[p])} : p \in Procs}

\* C11: once all NUM_PROCESSES workers have finished their scraping loops,
\* failures.txt lists every URL whose scrape failed in any worker, each
\* exactly once, under every interleaving; a failed URL has no fragment
\* record and a URL that was scraped is not listed.
C11_FailuresListed ==
    (AllScrapingDone /\ Len(urls) >= NUM_PROCESSES) =>
        /\ failures_txt.exists
        /\ \A u \in FailedUrls :
              Cardinality({i \in 1..Len(failures_txt.lines) :
                              failures_txt.lines[i] = u}) = 1
        /\ \A i \in 1..Len(failures_txt.lines) : failures_txt.lines[i] \in FailedUrls
        /\ FailedUrls \cap StoredSites = {}

\* what the code keeps: each worker's list holds its own failed URLs once,
\* none of them stored, and failures.txt is one worker's list
Failures_AsCoded ==
    (AllScrapingDone /\ Len(urls) >= NUM_PROCESSES) =>
        /\ \E p \in Procs : failures_txt = [exists |-> TRUE, lines |-> FAILURES[p]]
        /\ FailedUrls \cap StoredSites = {}
        /\ \A p \in Procs : \A i, j \in 1..Len(FAILURES[p]) :
              FAILURES[p][i] = FAILURES[p][j] => i = j

====
